---- MODULE Spec2Model ----
(***************************************************************************)
(* Model of src/GooglePlay.ts: the release task `run` with its track       *)
(* update `updateTrack` and the exclusion-list parser                      *)
(* `getVersionCodeListInput`.  One action per awaited step of `run`.       *)
(***************************************************************************)
EXTENDS Integers, Sequences, FiniteSets

VARIABLES
    pc,                   \* the awaited step `run` is at
    versionCodeFilterType,\* tl.getInput('versionCodeFilterType', false)
    replaceList,          \* tl.getDelimitedInput('replaceList', ','): raw entries
    replaceExpression,    \* tl.getInput('replaceExpression', true)
    versionCodeFilter,    \* the parsed filter value (null, string or number[])
    updateStoreListing, shouldUploadApks, shouldAttachMetadata,
    changelogFile,        \* TRUE when a changelog file is supplied
    apkFileList,          \* number of APK files found (main + additional)
    apkVersionCodes,      \* version codes collected so far
    requireTrackUpdate,
    res,                  \* the track returned by googleutil.getTrack
    newTrackVersionCodes, \* the list updateTrack builds
    trackRequests,        \* the lists handed to googleutil.updateTrack, in order
    calls,                \* how often each platform call was made
    result,               \* tl.setResult
    error                 \* the error caught by run

vars == <<pc, versionCodeFilterType, replaceList, replaceExpression,
          versionCodeFilter, updateStoreListing, shouldUploadApks,
          shouldAttachMetadata, changelogFile, apkFileList, apkVersionCodes,
          requireTrackUpdate, res, newTrackVersionCodes, trackRequests, calls,
          result, error>>

----------------------------------------------------------------------------
(* Bounds of the model *)

MaxOld == 2       \* longest version-code list of a fetched release
MaxApks == 2      \* most APK files of one run
MaxPattern == 3   \* longest replaceExpression, in characters
MaxList == 2      \* most entries of replaceList

\* version codes the platform and the APK manifests may carry
Codes == {1, 12}

\* characters a replaceExpression is drawn from
PatternChars == {"1", "2", ".", "|"}

\* raw entries a replaceList is drawn from, one character per element
ListEntries == { <<"1">>, <<" ", "1", "2">>, <<"0">>, <<"-", "1">>, <<"a">>,
                 <<"1", ".", "5">>, <<"1", "2", "a">> }

TrackName == "production"

SeqsUpTo(S, n) == UNION { [1..k -> S] : k \in 0..n }

----------------------------------------------------------------------------
(* Values *)

\* a JavaScript number: NaN, or an integer
NaN == [isNaN |-> TRUE, value |-> 0]
Num(n) == [isNaN |-> FALSE, value |-> n]

\* a JavaScript value of type string | number[] | null
StringFilter(s) == [typeof |-> "string", isNull |-> FALSE, str |-> s, list |-> <<>>]
ListFilter(l) == [typeof |-> "object", isNull |-> FALSE, str |-> <<>>, list |-> l]
NullFilter == [typeof |-> "object", isNull |-> TRUE, str |-> <<>>, list |-> <<>>]

\* a googleutil.Track as the platform returns it
NoTrack == [hasReleases |-> FALSE, releases |-> <<>>]
TrackOf(releases) == [hasReleases |-> TRUE, releases |-> releases]
Release(codes) == [hasVersionCodes |-> TRUE, versionCodes |-> codes]

\* the error run catches: the call that threw it and the track its message names
NoError == [kind |-> "none", track |-> ""]
ErrorOf(kind, track) == [kind |-> kind, track |-> track]

----------------------------------------------------------------------------
(* Number.prototype.toString and parseInt *)

DigitChars == <<"0", "1", "2", "3", "4", "5", "6", "7", "8", "9">>

IsDigit(c) == \E d \in 1..10 : DigitChars[d] = c

DigitValue(c) == (CHOOSE d \in 1..10 : DigitChars[d] = c) - 1

RECURSIVE ToString(_)
ToString(n) ==
    IF n < 10 THEN <<DigitChars[n + 1]>>
    ELSE ToString(n \div 10) \o <<DigitChars[(n % 10) + 1]>>

RECURSIVE TrimLeft(_)
TrimLeft(s) == IF s # <<>> /\ Head(s) = " " THEN TrimLeft(Tail(s)) ELSE s

RECURSIVE TrimRight(_)
TrimRight(s) ==
    IF s # <<>> /\ s[Len(s)] = " " THEN TrimRight(SubSeq(s, 1, Len(s) - 1)) ELSE s

Trim(s) == TrimRight(TrimLeft(s))

\* the longest prefix of s made of decimal digits
RECURSIVE DigitPrefix(_)
DigitPrefix(s) ==
    IF s # <<>> /\ IsDigit(Head(s)) THEN <<Head(s)>> \o DigitPrefix(Tail(s))
    ELSE <<>>

RECURSIVE DigitsValue(_)
DigitsValue(s) ==
    IF s = <<>> THEN 0
    ELSE 10 * DigitsValue(SubSeq(s, 1, Len(s) - 1)) + DigitValue(s[Len(s)])

\* parseInt(s, 10): optional white space and sign, then the leading digits;
\* NaN when there is none; whatever follows the digits is ignored
ParseInt(s) ==
    LET t == TrimLeft(s)
        neg == t # <<>> /\ Head(t) = "-"
        signed == t # <<>> /\ Head(t) \in {"-", "+"}
        body == IF signed THEN Tail(t) ELSE t
        digits == DigitPrefix(body)
    IN  IF digits = <<>> THEN NaN
        ELSE IF neg THEN Num(0 - DigitsValue(digits))
        ELSE Num(DigitsValue(digits))

----------------------------------------------------------------------------
(* getVersionCodeListInput *)

\* versionCodeNumber && (versionCodeNumber > 0): NaN and 0 are falsy
AcceptsVersionCode(versionCodeNumber) ==
    /\ ~versionCodeNumber.isNaN
    /\ versionCodeNumber.value # 0
    /\ versionCodeNumber.value > 0

ParsedEntry(versionCode) == ParseInt(Trim(versionCode))

\* the entries pushed to incorrectCodes
IncorrectCodes(versionCodeFilterInput) ==
    SelectSeq(versionCodeFilterInput,
              LAMBDA versionCode : ~AcceptsVersionCode(ParsedEntry(versionCode)))

\* the numbers pushed to versionCodeFilter, in input order
RECURSIVE ParsedCodes(_)
ParsedCodes(versionCodeFilterInput) ==
    IF versionCodeFilterInput = <<>> THEN <<>>
    ELSE LET n == ParsedEntry(Head(versionCodeFilterInput))
         IN  (IF AcceptsVersionCode(n) THEN <<n.value>> ELSE <<>>)
             \o ParsedCodes(Tail(versionCodeFilterInput))

GetVersionCodeListInputThrows(versionCodeFilterInput) ==
    Len(IncorrectCodes(versionCodeFilterInput)) > 0

----------------------------------------------------------------------------
(* new RegExp(`^${versionCodeFilter}$`) and String.prototype.match *)

\* the source text of the regular expression, one character per element
RegExpSource(filter) == <<"^">> \o filter \o <<"$">>

\* the alternatives of a source: "|" binds weakest and splits the whole source
RECURSIVE Alternatives(_)
Alternatives(source) ==
    IF \E i \in 1..Len(source) : source[i] = "|"
    THEN LET i == CHOOSE j \in 1..Len(source) :
                      source[j] = "|" /\ \A k \in 1..(j - 1) : source[k] # "|"
         IN  <<SubSeq(source, 1, i - 1)>>
             \o Alternatives(SubSeq(source, i + 1, Len(source)))
    ELSE <<source>>

\* does alternative alt, from its i-th term on, match str at position pos
RECURSIVE MatchHere(_, _, _, _)
MatchHere(alt, i, str, pos) ==
    IF i > Len(alt) THEN TRUE
    ELSE IF alt[i] = "^" THEN pos = 1 /\ MatchHere(alt, i + 1, str, pos)
    ELSE IF alt[i] = "$" THEN pos = Len(str) + 1 /\ MatchHere(alt, i + 1, str, pos)
    ELSE IF alt[i] = "." THEN pos <= Len(str) /\ MatchHere(alt, i + 1, str, pos + 1)
    ELSE pos <= Len(str) /\ str[pos] = alt[i] /\ MatchHere(alt, i + 1, str, pos + 1)

\* str.match(regexp) is not null: some alternative matches at some position
Matches(source, str) ==
    LET alts == Alternatives(source)
    IN  \E a \in 1..Len(alts) : \E pos \in 1..(Len(str) + 1) :
            MatchHere(alts[a], 1, str, pos)

----------------------------------------------------------------------------
(* updateTrack: the merge of the old track and the uploaded codes *)

IndexOfIsMinusOne(list, versionCode) ==
    \A i \in 1..Len(list) : list[i] # versionCode

\* the old codes kept by the 'expression' branch
KeepByExpression(oldTrackVersionCodes, filter) ==
    SelectSeq(oldTrackVersionCodes,
              LAMBDA versionCode :
                  ~Matches(RegExpSource(filter), ToString(versionCode)))

\* KeepByList with the test of line 261 inverted (!== -1)
KeepByListInverted(oldTrackVersionCodes, versionCodesToRemove) ==
    SelectSeq(oldTrackVersionCodes,
              LAMBDA versionCode : ~IndexOfIsMinusOne(versionCodesToRemove, versionCode))

\* the old codes kept by the list branch
KeepByList(oldTrackVersionCodes, versionCodesToRemove) ==
    SelectSeq(oldTrackVersionCodes,
              LAMBDA versionCode : IndexOfIsMinusOne(versionCodesToRemove, versionCode))

\* PushNew with unshift in place of push at line 270
RECURSIVE PushNewFront(_, _)
PushNewFront(kept, codes) ==
    IF codes = <<>> THEN kept
    ELSE PushNewFront(IF IndexOfIsMinusOne(kept, Head(codes))
                      THEN <<Head(codes)>> \o kept ELSE kept,
                      Tail(codes))

\* apkVersionCodes.forEach: push each code the list does not hold yet
RECURSIVE PushNew(_, _)
PushNew(kept, codes) ==
    IF codes = <<>> THEN kept
    ELSE PushNew(IF IndexOfIsMinusOne(kept, Head(codes))
                 THEN Append(kept, Head(codes)) ELSE kept,
                 Tail(codes))

\* res.releases[0].versionCodes and the loops over it throw a TypeError when
\* the track has no release, the release no version codes, or the filter is
\* null while there is an old code to test against it
MergeThrows(track, filter) ==
    \/ ~track.hasReleases
    \/ track.releases = <<>>
    \/ ~track.releases[1].hasVersionCodes
    \/ /\ filter.typeof # "string"
       /\ filter.isNull
       /\ track.releases[1].versionCodes # <<>>

\* Merge with the filter applied to the uploaded codes as well as the old ones
MergeFilteringUploads(track, filter, codes) ==
    LET all == track.releases[1].versionCodes \o codes
        kept == IF filter.typeof = "string"
                THEN KeepByExpression(all, filter.str)
                ELSE KeepByList(all, filter.list)
    IN  PushNew(<<>>, kept)

\* the list the non-'all' branch builds from a fetched track
Merge(track, filter, codes) ==
    LET oldTrackVersionCodes == track.releases[1].versionCodes
        kept == IF filter.typeof = "string"
                THEN KeepByExpression(oldTrackVersionCodes, filter.str)
                ELSE KeepByList(oldTrackVersionCodes, filter.list)
    IN  PushNew(kept, codes)

----------------------------------------------------------------------------
(* run *)

Absent == "undefined"

FilterTypes == {"all", "list", "expression", Absent}

\* the tracks googleutil.getTrack may return
Tracks ==
    {NoTrack, TrackOf(<<>>),
     TrackOf(<<[hasVersionCodes |-> FALSE, versionCodes |-> <<>>]>>)}
    \cup {TrackOf(<<Release(codes)>>) : codes \in SeqsUpTo(Codes, MaxOld)}

NoCalls == [authorize |-> 0, getNewEdit |-> 0, addApk |-> 0,
            getTrack |-> 0, updateTrack |-> 0, commit |-> 0]

Called(name) == [calls EXCEPT ![name] = @ + 1]

Init ==
    /\ pc = "inputs"
    /\ versionCodeFilterType \in FilterTypes
    /\ replaceList \in IF versionCodeFilterType = "list"
                       THEN SeqsUpTo(ListEntries, MaxList) ELSE {<<>>}
    /\ replaceExpression \in IF versionCodeFilterType = "expression"
                             THEN SeqsUpTo(PatternChars, MaxPattern) \ {<<>>}
                             ELSE {<<>>}
    /\ versionCodeFilter = NullFilter
    /\ updateStoreListing \in BOOLEAN
    /\ shouldUploadApks \in BOOLEAN
    /\ shouldAttachMetadata \in BOOLEAN
    /\ changelogFile \in IF shouldAttachMetadata THEN {FALSE} ELSE BOOLEAN
    /\ apkFileList \in 1..MaxApks
    /\ apkVersionCodes = <<>>
    /\ requireTrackUpdate = FALSE
    /\ res = NoTrack
    /\ newTrackVersionCodes = <<>>
    /\ trackRequests = <<>>
    /\ calls = NoCalls
    /\ result = "none"
    /\ error = NoError

inputVars == <<versionCodeFilterType, replaceList, replaceExpression,
               updateStoreListing, shouldUploadApks, shouldAttachMetadata,
               changelogFile, apkFileList>>

\* Fail with the error recorded but the transaction carried on to its commit
FailAndCarryOn(e) ==
    /\ pc' = "commit"
    /\ result' = "Failed"
    /\ error' = e

\* catch (e) { tl.setResult(tl.TaskResult.Failed, e) }
Fail(e) ==
    /\ pc' = "done"
    /\ result' = "Failed"
    /\ error' = e

\* lines 50-56: the filter value of the configured filter type
PrepareInputs ==
    /\ pc = "inputs"
    /\ IF versionCodeFilterType = "list"
       THEN IF GetVersionCodeListInputThrows(replaceList)
            THEN /\ Fail(ErrorOf("IncorrectVersionCodeFilter", ""))
                 /\ UNCHANGED versionCodeFilter
            ELSE /\ versionCodeFilter' = ListFilter(ParsedCodes(replaceList))
                 /\ pc' = "authorize"
                 /\ UNCHANGED <<result, error>>
       ELSE /\ versionCodeFilter' =
                   IF versionCodeFilterType = "expression"
                   THEN StringFilter(replaceExpression) ELSE NullFilter
            /\ pc' = "authorize"
            /\ UNCHANGED <<result, error>>
    /\ UNCHANGED <<inputVars, apkVersionCodes, requireTrackUpdate, res,
                   newTrackVersionCodes, trackRequests, calls>>

\* await jwtClient.authorize()
Authorize ==
    /\ pc = "authorize"
    /\ calls' = Called("authorize")
    /\ \E ok \in BOOLEAN :
          IF ok THEN pc' = "getNewEdit" /\ UNCHANGED <<result, error>>
          ELSE Fail(ErrorOf("AuthorizeError", ""))
    /\ UNCHANGED <<inputVars, versionCodeFilter, apkVersionCodes,
                   requireTrackUpdate, res, newTrackVersionCodes, trackRequests>>

\* await googleutil.getNewEdit(...), then the branch of lines 118-159
GetNewEdit ==
    /\ pc = "getNewEdit"
    /\ calls' = Called("getNewEdit")
    /\ \E ok \in BOOLEAN :
          IF ok
          THEN /\ pc' = IF updateStoreListing THEN "notes"
                        ELSE IF shouldUploadApks THEN "addApk"
                        ELSE "readManifest"
               /\ requireTrackUpdate' = (~updateStoreListing /\ shouldUploadApks)
               /\ UNCHANGED <<result, error>>
          ELSE /\ Fail(ErrorOf("GetNewEditError", ""))
               /\ UNCHANGED requireTrackUpdate
    /\ UNCHANGED <<inputVars, versionCodeFilter, apkVersionCodes, res,
                   newTrackVersionCodes, trackRequests>>

\* one round of the upload loop: addApk (and addObb), then push apk.versionCode
AddApk ==
    /\ pc = "addApk"
    /\ calls' = Called("addApk")
    /\ \E ok \in BOOLEAN :
          IF ok
          THEN \E versionCode \in Codes :
                  /\ apkVersionCodes' = Append(apkVersionCodes, versionCode)
                  /\ pc' = IF Len(apkVersionCodes') < apkFileList
                           THEN "addApk" ELSE "mapping"
                  /\ UNCHANGED <<result, error>>
          ELSE /\ Fail(ErrorOf("AddApkError", ""))
               /\ UNCHANGED apkVersionCodes
    /\ UNCHANGED <<inputVars, versionCodeFilter, requireTrackUpdate, res,
                   newTrackVersionCodes, trackRequests>>

\* lines 137-147: the mapping file, when shouldUploadMappingFile is set
UploadDeobfuscation ==
    /\ pc = "mapping"
    /\ \E selected \in BOOLEAN, ok \in BOOLEAN :
          IF Len(apkVersionCodes) > 0 /\ selected /\ ~ok
          THEN Fail(ErrorOf("UploadDeobfuscationError", ""))
          ELSE pc' = "notes" /\ UNCHANGED <<result, error>>
    /\ UNCHANGED <<inputVars, versionCodeFilter, apkVersionCodes,
                   requireTrackUpdate, res, newTrackVersionCodes, trackRequests,
                   calls>>

\* one round of the loop of lines 151-158: read the manifest, push its code
ReadManifest ==
    /\ pc = "readManifest"
    /\ \E ok \in BOOLEAN :
          IF ok
          THEN \E apkVersionCode \in Codes :
                  /\ apkVersionCodes' = Append(apkVersionCodes, apkVersionCode)
                  /\ pc' = IF Len(apkVersionCodes') < apkFileList
                           THEN "readManifest" ELSE "notes"
                  /\ UNCHANGED <<result, error>>
          ELSE /\ Fail(ErrorOf("ReadManifestError", ""))
               /\ UNCHANGED apkVersionCodes
    /\ UNCHANGED <<inputVars, versionCodeFilter, requireTrackUpdate, res,
                   newTrackVersionCodes, trackRequests, calls>>

\* EnterTrackStage without the 'all' shortcut of lines 233-234
EnterTrackStageAlwaysFetch(required) ==
    IF required
    THEN /\ newTrackVersionCodes' = <<>>
         /\ pc' = "getTrack"
    ELSE /\ pc' = "commit"
         /\ UNCHANGED newTrackVersionCodes

\* lines 177-185 and 230-235: enter updateTrack, or go straight to commit
EnterTrackStage(required) ==
    IF required
    THEN IF versionCodeFilterType = "all"
         THEN /\ newTrackVersionCodes' = apkVersionCodes
              /\ pc' = "updateTrack"
         ELSE /\ newTrackVersionCodes' = <<>>
              /\ pc' = "getTrack"
    ELSE /\ pc' = "commit"
         /\ UNCHANGED newTrackVersionCodes

\* lines 162-169: await addMetadata(...)
AddMetadata ==
    /\ pc = "notes"
    /\ shouldAttachMetadata
    /\ \E ok \in BOOLEAN :
          IF ok
          THEN /\ requireTrackUpdate' = ~updateStoreListing
               /\ EnterTrackStage(requireTrackUpdate')
               /\ UNCHANGED <<result, error>>
          ELSE /\ Fail(ErrorOf("AddMetadataError", ""))
               /\ UNCHANGED <<requireTrackUpdate, newTrackVersionCodes>>
    /\ UNCHANGED <<inputVars, versionCodeFilter, apkVersionCodes, res,
                   trackRequests, calls>>

\* lines 170-175: await getCommonReleaseNotes(...)
GetCommonReleaseNotes ==
    /\ pc = "notes"
    /\ ~shouldAttachMetadata
    /\ changelogFile
    /\ \E ok \in BOOLEAN :
          IF ok
          THEN /\ requireTrackUpdate' = TRUE
               /\ EnterTrackStage(requireTrackUpdate')
               /\ UNCHANGED <<result, error>>
          ELSE /\ Fail(ErrorOf("ReleaseNotesError", ""))
               /\ UNCHANGED <<requireTrackUpdate, newTrackVersionCodes>>
    /\ UNCHANGED <<inputVars, versionCodeFilter, apkVersionCodes, res,
                   trackRequests, calls>>

\* neither metadata nor a changelog: requireTrackUpdate stays as it is
NoReleaseNotes ==
    /\ pc = "notes"
    /\ ~shouldAttachMetadata
    /\ ~changelogFile
    /\ EnterTrackStage(requireTrackUpdate)
    /\ UNCHANGED <<inputVars, versionCodeFilter, apkVersionCodes,
                   requireTrackUpdate, res, trackRequests, calls, result, error>>

\* updateTrack, lines 236-273: fetch the track and merge
GetTrack ==
    /\ pc = "getTrack"
    /\ calls' = Called("getTrack")
    /\ \E ok \in BOOLEAN :
          IF ok
          THEN \E track \in Tracks :
                  /\ res' = track
                  /\ IF MergeThrows(track, versionCodeFilter)
                     THEN /\ Fail(ErrorOf("TypeError", ""))
                          /\ UNCHANGED newTrackVersionCodes
                     ELSE /\ newTrackVersionCodes' =
                                 Merge(track, versionCodeFilter, apkVersionCodes)
                          /\ pc' = "updateTrack"
                          /\ UNCHANGED <<result, error>>
          ELSE /\ Fail(ErrorOf("CannotDownloadTrack", TrackName))
               /\ UNCHANGED <<res, newTrackVersionCodes>>
    /\ UNCHANGED <<inputVars, versionCodeFilter, apkVersionCodes,
                   requireTrackUpdate, trackRequests>>

\* updateTrack, lines 275-283: await googleutil.updateTrack(...)
UpdateTrack ==
    /\ pc = "updateTrack"
    /\ calls' = Called("updateTrack")
    /\ trackRequests' = Append(trackRequests, newTrackVersionCodes)
    /\ \E ok \in BOOLEAN :
          IF ok THEN pc' = "commit" /\ UNCHANGED <<result, error>>
          ELSE Fail(ErrorOf("CannotUpdateTrack", TrackName))
    /\ UNCHANGED <<inputVars, versionCodeFilter, apkVersionCodes,
                   requireTrackUpdate, res, newTrackVersionCodes>>

\* lines 184-194: await edits.commit()
Commit ==
    /\ pc = "commit"
    /\ calls' = Called("commit")
    /\ \E ok \in BOOLEAN :
          IF ok
          THEN /\ pc' = "done"
               /\ result' = "Succeeded"
               /\ UNCHANGED error
          ELSE Fail(ErrorOf("CommitError", ""))
    /\ UNCHANGED <<inputVars, versionCodeFilter, apkVersionCodes,
                   requireTrackUpdate, res, newTrackVersionCodes, trackRequests>>

Next ==
    \/ PrepareInputs
    \/ Authorize
    \/ GetNewEdit
    \/ AddApk
    \/ UploadDeobfuscation
    \/ ReadManifest
    \/ AddMetadata
    \/ GetCommonReleaseNotes
    \/ NoReleaseNotes
    \/ GetTrack
    \/ UpdateTrack
    \/ Commit

Spec == Init /\ [][Next]_vars

----------------------------------------------------------------------------
(* Properties *)

Range(s) == {s[i] : i \in 1..Len(s)}

NoDuplicates(s) == \A i, j \in 1..Len(s) : i # j => s[i] # s[j]

\* googleutil.updateTrack has been called with a list
Sent == trackRequests # <<>>

\* googleutil.getTrack has returned a track
Fetched == calls.getTrack > 0 /\ error.kind # "CannotDownloadTrack"

\* the old codes the merge started from, once a list was sent
OldCodes == res.releases[1].versionCodes

\* the old codes the configured filter keeps
Survivors ==
    IF versionCodeFilter.typeof = "string"
    THEN KeepByExpression(OldCodes, versionCodeFilter.str)
    ELSE KeepByList(OldCodes, versionCodeFilter.list)

FirstIndex(s, x) == CHOOSE i \in 1..Len(s) : s[i] = x /\ \A k \in 1..(i - 1) : s[k] # x

\* the whole of str matches the pattern: one of its alternatives, end to end
FullMatch(pattern, str) ==
    LET alts == Alternatives(pattern)
    IN  \E a \in 1..Len(alts) :
            MatchHere(<<"^">> \o alts[a] \o <<"$">>, 1, str, 1)

\* the entry, white space aside, is the decimal numeral of a positive integer
IsPositiveInteger(entry) ==
    LET t == Trim(entry)
    IN  /\ t # <<>>
        /\ \A i \in 1..Len(t) : IsDigit(t[i])
        /\ DigitsValue(t) > 0

\* C1: whatever the filter type, the old codes and the uploaded codes, no
\* list sent to the platform holds a version code more than once.
C1_NoDuplicateVersionCodes ==
    \A r \in 1..Len(trackRequests) : NoDuplicates(trackRequests[r])

\* C2: every uploaded version code is in every list sent to the platform,
\* whatever the old track and the filter, also when the filter excludes it.
C2_UploadedCodesNeverDropped ==
    \A r \in 1..Len(trackRequests) :
        Range(apkVersionCodes) \subseteq Range(trackRequests[r])

\* an uploaded code that the exclusion list names and the old track held was sent
C2_Witness ==
    /\ Sent
    /\ versionCodeFilterType = "list"
    /\ \E c \in Range(apkVersionCodes) :
          /\ c \in Range(versionCodeFilter.list)
          /\ c \in Range(OldCodes)
          /\ c \in Range(trackRequests[1])

\* C3: with filter type 'list', an old code in the exclusion list is absent
\* from the list sent unless it was also uploaded, and every old code not in
\* the exclusion list is present.
C3_ExplicitListRemovesListedCodes ==
    (Sent /\ versionCodeFilterType = "list") =>
        \A c \in Range(OldCodes) :
            /\ (c \in Range(versionCodeFilter.list) /\ c \notin Range(apkVersionCodes))
                   => c \notin Range(trackRequests[1])
            /\ c \notin Range(versionCodeFilter.list)
                   => c \in Range(trackRequests[1])

\* one old code was removed by the list and another one kept
C3_Witness ==
    /\ Sent
    /\ versionCodeFilterType = "list"
    /\ \E c, d \in Range(OldCodes) :
          /\ c \in Range(versionCodeFilter.list)
          /\ c \notin Range(trackRequests[1])
          /\ d \notin Range(versionCodeFilter.list)
          /\ d \in Range(trackRequests[1])

\* C4: with filter type 'expression', an old code is removed exactly when
\* the whole of its decimal string matches the pattern; a code of which only
\* a part matches survives.
C4_PatternRemovesExactlyFullMatches ==
    (Sent /\ versionCodeFilterType = "expression") =>
        \A c \in Range(OldCodes) :
            c \notin Range(apkVersionCodes) =>
                (c \notin Range(trackRequests[1])
                     <=> FullMatch(replaceExpression, ToString(c)))

\* C5: with a filter other than 'all' and a fetched track without releases,
\* updateTrack does not fail and sends exactly the uploaded codes.
C5_EmptyOldTrackHandled ==
    (Fetched /\ (~res.hasReleases \/ res.releases = <<>>)) =>
        /\ error.kind # "TypeError"
        /\ pc \in {"updateTrack", "commit", "done"}
        /\ newTrackVersionCodes = apkVersionCodes

\* C6: with no filter type supplied, the track update does not fail and the
\* list sent is the uploaded codes, as with filter type 'all'.
C6_AbsentFilterTypeBehavesAsAll ==
    versionCodeFilterType = Absent =>
        /\ error.kind # "TypeError"
        /\ \A r \in 1..Len(trackRequests) : trackRequests[r] = apkVersionCodes

\* C7: commit is called only when every step before it succeeded; a failed
\* track fetch or track update raises an error naming the track, is not
\* retried, is never followed by a commit and ends the run as Failed.
C7_NoCommitAfterFailure ==
    /\ calls.commit > 0 =>
          /\ error.kind \in {"none", "CommitError"}
          /\ calls.authorize = 1 /\ calls.getNewEdit = 1
          /\ calls.addApk \in {0, apkFileList}
          /\ requireTrackUpdate => Len(trackRequests) = 1
          /\ (requireTrackUpdate /\ versionCodeFilterType # "all") => Fetched
    /\ error.kind \in {"CannotDownloadTrack", "CannotUpdateTrack"} =>
          /\ error.track = TrackName
          /\ calls.commit = 0
          /\ result = "Failed"
          /\ pc = "done"
    /\ error.kind # "none" => result = "Failed" /\ pc = "done"
    /\ calls.getTrack <= 1 /\ calls.updateTrack <= 1 /\ calls.commit <= 1

\* the track update failed after a successful fetch
C7_Witness ==
    /\ error.kind = "CannotUpdateTrack"
    /\ calls.getTrack = 1
    /\ Sent
    /\ pc = "done"

\* C8: with filter type 'list', an entry that is not a positive integer makes
\* getVersionCodeListInput fail, and the run then uploads nothing, updates
\* no track and commits nothing.
C8_InvalidListRejected ==
    ( /\ versionCodeFilterType = "list"
      /\ pc # "inputs"
      /\ \E i \in 1..Len(replaceList) : ~IsPositiveInteger(replaceList[i]) ) =>
        /\ error.kind = "IncorrectVersionCodeFilter"
        /\ calls = NoCalls
        /\ ~Sent

\* C9: with a filter other than 'all', the list sent is the surviving old
\* codes in their old order, followed by the uploaded codes that are not among
\* the survivors, each once, in the order of their first upload.
C9_SurvivorsThenUploads ==
    (Sent /\ versionCodeFilterType # "all") =>
        LET merged == trackRequests[1]
            k == Len(Survivors)
            appended == SubSeq(merged, k + 1, Len(merged))
        IN  /\ Len(merged) >= k
            /\ SubSeq(merged, 1, k) = Survivors
            /\ NoDuplicates(appended)
            /\ Range(appended) = Range(apkVersionCodes) \ Range(Survivors)
            /\ \A i, j \in 1..Len(appended) :
                  i < j => FirstIndex(apkVersionCodes, appended[i])
                               < FirstIndex(apkVersionCodes, appended[j])

\* a survivor, then two appended codes, with an uploaded code left out because
\* a survivor already carries it
C9_Witness ==
    /\ Sent
    /\ versionCodeFilterType # "all"
    /\ Len(Survivors) >= 1
    /\ Len(trackRequests[1]) > Len(Survivors)
    /\ Len(trackRequests[1]) < Len(Survivors) + Len(apkVersionCodes)

\* C10: with filter type 'all' the list sent is exactly the uploaded codes in
\* upload order and the old track is never fetched.
C10_AllSendsUploadsWithoutFetch ==
    versionCodeFilterType = "all" =>
        /\ calls.getTrack = 0
        /\ \A r \in 1..Len(trackRequests) : trackRequests[r] = apkVersionCodes

\* two uploaded codes were sent under filter type 'all'
C10_Witness ==
    /\ versionCodeFilterType = "all"
    /\ Sent
    /\ Len(apkVersionCodes) = 2
    /\ apkVersionCodes[1] # apkVersionCodes[2]
    /\ result = "Succeeded"

\* C11: in a run with updateStoreListing selected, whatever the other
\* options, updateTrack is never entered: the track is neither fetched nor
\* updated, so no list (in particular no empty list) is sent for it.
C11_StoreListingSkipsTrackUpdate ==
    updateStoreListing =>
        /\ pc \notin {"getTrack", "updateTrack"}
        /\ calls.getTrack = 0
        /\ calls.updateTrack = 0
        /\ ~Sent

====
